---------------------------- MODULE Spec2Model ----------------------------
(***************************************************************************)
(* Model of src/minesweeper/minesweeper.py: the Minesweeper board         *)
(* (is_mine, nearby_mines), the Sentence class and the MinesweeperAI      *)
(* knowledge-base agent (mark_mine, mark_safe, add_knowledge, neighbors,  *)
(* inbound, make_safe_move, make_random_move).                            *)
(*                                                                         *)
(* A cell is a pair <<row, col>>.  A Sentence value is a record           *)
(* [cells, count].  Inside one add_knowledge call the Sentence objects    *)
(* are kept in a heap (a sequence of Sentence values, the index is the    *)
(* object's identity) and the lists `knowledge` and `knowledge.copy()`    *)
(* are sequences of heap indices, so that aliasing between the list and   *)
(* its snapshot, and list.remove's search by equality, are modelled as    *)
(* Python performs them.  Between calls only the values and their order   *)
(* are observable, and the variable `knowledge` holds exactly that.       *)
(***************************************************************************)
EXTENDS Integers, Sequences, FiniteSets, TLC

\* ------------------------------------------------------------------ bounds
Height == 2
Width == 3
MaxCalls == 4
MaxCallsAny == 3
MaxCallsMark == 2
MaxMarks == 2
MaxEmpty == 5

\* ------------------------------------------------------------------- state
VARIABLES
    board,       \* Minesweeper.mines: the hidden set of mine cells
    moves_made,  \* MinesweeperAI.moves_made
    safes,       \* MinesweeperAI.safes
    mines,       \* MinesweeperAI.mines
    knowledge,   \* MinesweeperAI.knowledge: sequence of [cells, count]
    lastOp,      \* the operation that produced this state
    lastCell,    \* argument `cell` of the last add_knowledge call
    lastCount,   \* argument `count` of the last add_knowledge call
    ret,         \* value returned by the last make_*_move call
    err,         \* exception raised by the last call ("none" if it returned)
    newSentence, \* the Sentence the last add_knowledge call built at (3)
    touched,     \* every value a Sentence of `knowledge` took after a
                 \* mutation performed during the last add_knowledge call
    passLog,     \* what the last add_knowledge call did with each Sentence
                 \* of its snapshot `self.knowledge.copy()`, in list order
    markLog,     \* the direct mark_mine / mark_safe calls: n, their number;
                 \* run, how many times in a row the last one was made (its
                 \* cell is lastCell); acted, whether the first call of the
                 \* run changed a Sentence
    calls,       \* number of add_knowledge calls made so far
    game         \* a game of tic-tac-toe: board, the current board; last,
                 \* the function called last;
                 \* rets, what the last minimax call can return; value, the
                 \* value it computed, in a set; mm, the side that plays
                 \* what minimax returns; promise, the value minimax
                 \* computed the first time that side asked, in a set

msvars == <<board, moves_made, safes, mines, knowledge, lastOp, lastCell,
            lastCount, ret, err, newSentence, touched, passLog, markLog, calls>>

vars == <<msvars, game>>

None == "None"
NoCell == <<-1, -1>>

\* self.allMoves, built by __init__ from range(height) x range(width)
allMoves == {<<h, w>> : h \in 0 .. Height - 1, w \in 0 .. Width - 1}

\* ----------------------------------------------------------- Minesweeper
\* Minesweeper.is_mine
is_mine(b, cell) == cell \in b

\* Minesweeper.nearby_mines: mines within one row and column of the cell,
\* the cell itself excluded, out-of-bounds positions ignored.
nearby_mines(b, cell) ==
    Cardinality({t \in (cell[1] - 1 .. cell[1] + 1) \X (cell[2] - 1 .. cell[2] + 1) :
                    /\ t # cell
                    /\ 0 <= t[1] /\ t[1] < Height
                    /\ 0 <= t[2] /\ t[2] < Width
                    /\ t \in b})

\* -------------------------------------------------------------- Sentence
\* Sentence.__init__
Sentence(cells, count) == [cells |-> cells, count |-> count]

\* Sentence.__eq__
SentenceEq(a, b) == a.cells = b.cells /\ a.count = b.count

\* Python's optional result: None, or a reference to the cells set.
\* isNone is decided when the method runs; the set itself is an alias of
\* self.cells and is read again wherever it is used.
\* known_mines with the test `len(self.cells) >= self.count`
known_minesAtLeast(s) == IF Cardinality(s.cells) >= s.count THEN "cells" ELSE None

\* Sentence.known_mines
known_mines(s) == IF Cardinality(s.cells) = s.count THEN "cells" ELSE None

\* known_safes with the test `self.count <= 0`
known_safesNonPositive(s) == IF s.count <= 0 THEN "cells" ELSE None

\* known_safes without its `return`
known_safesNoReturn(s) == None

\* Sentence.known_safes
known_safes(s) == IF s.count = 0 THEN "cells" ELSE None

\* mark_mine without `self.count -= 1`
SentenceMarkMineKeepCount(s, cell) ==
    IF cell \in s.cells
    THEN [cells |-> s.cells \ {cell}, count |-> s.count]
    ELSE s

\* mark_mine with `self.count -= 1` outside the `if`
SentenceMarkMineAlwaysDecrement(s, cell) ==
    [cells |-> s.cells \ {cell}, count |-> s.count - 1]

\* mark_mine without `self.cells.remove(cell)`
SentenceMarkMineKeepCell(s, cell) ==
    IF cell \in s.cells
    THEN [cells |-> s.cells, count |-> s.count - 1]
    ELSE s

\* Sentence.mark_mine
SentenceMarkMine(s, cell) ==
    IF cell \in s.cells
    THEN [cells |-> s.cells \ {cell}, count |-> s.count - 1]
    ELSE s

\* mark_safe with mark_mine's `self.count -= 1`
SentenceMarkSafeDecrement(s, cell) ==
    IF cell \in s.cells
    THEN [cells |-> s.cells \ {cell}, count |-> s.count - 1]
    ELSE s

\* Sentence.mark_safe
SentenceMarkSafe(s, cell) ==
    IF cell \in s.cells
    THEN [cells |-> s.cells \ {cell}, count |-> s.count]
    ELSE s

\* ------------------------------------------------- MinesweeperAI helpers
\* MinesweeperAI.inbound
inbound(t) == t[1] >= 0 /\ t[1] < Height /\ t[2] >= 0 /\ t[2] < Width

\* the list `directions` of MinesweeperAI.neighbors
directions ==
    {<<-1, -1>>, <<-1, 0>>, <<-1, 1>>, <<0, -1>>, <<0, 1>>, <<1, -1>>, <<1, 0>>, <<1, 1>>}

\* neighbors without the test `newcell not in self.safes`
neighborsWithSafes(sf, cell) ==
    {n \in {<<cell[1] + d[1], cell[2] + d[2]>> : d \in directions} : inbound(n)}

\* MinesweeperAI.neighbors: in-bounds neighbours not known to be safe
neighbors(sf, cell) ==
    {n \in {<<cell[1] + d[1], cell[2] + d[2]>> : d \in directions} :
        inbound(n) /\ n \notin sf}

\* The state of one running add_knowledge call:
\*   safes, mines  the agent's sets
\*   heap          the Sentence objects, by identity
\*   kn            self.knowledge, a list of object identities
\*   err           "none" until an exception leaves the call
\*   touched       values Sentences of self.knowledge took after a mutation
\*   log           per object: its value when the loop of (4) reached it,
\*                 whether m and s were non-empty sets then, and which of
\*                 the two branches ran ("unvisited" until it is reached)
InKn(kn, id) == \E p \in 1 .. Len(kn) : kn[p] = id

Values(st) == {st.heap[st.kn[p]] : p \in 1 .. Len(st.kn)}

Touch(st) == [st EXCEPT !.touched = @ \cup Values(st)]

\* MinesweeperAI.mark_mine: add to mines, then Sentence.mark_mine on every
\* element of self.knowledge
AgentMarkMine(st, cell) ==
    Touch([st EXCEPT
        !.mines = @ \cup {cell},
        !.heap = [id \in DOMAIN st.heap |->
                    IF InKn(st.kn, id) THEN SentenceMarkMine(st.heap[id], cell)
                    ELSE st.heap[id]]])

\* MinesweeperAI.mark_safe without `self.safes.add(cell)`
AgentMarkSafeNoAdd(st, cell) ==
    Touch([st EXCEPT
        !.heap = [id \in DOMAIN st.heap |->
                    IF InKn(st.kn, id) THEN SentenceMarkSafe(st.heap[id], cell)
                    ELSE st.heap[id]]])

\* MinesweeperAI.mark_safe: add to safes, then Sentence.mark_safe on every
\* element of self.knowledge
AgentMarkSafe(st, cell) ==
    Touch([st EXCEPT
        !.safes = @ \cup {cell},
        !.heap = [id \in DOMAIN st.heap |->
                    IF InKn(st.kn, id) THEN SentenceMarkSafe(st.heap[id], cell)
                    ELSE st.heap[id]]])

\* `for mine in m.copy(): self.mark_mine(mine)`: cs is the copy.  (Here and
\* below, `CHOOSE r \in {F(x) : x \in {e}} : TRUE` is F(e) with e evaluated
\* once.)
RECURSIVE MarkMines(_, _)
MarkMines(st, cs) ==
    IF cs = {} THEN st
    ELSE LET c == CHOOSE x \in cs : TRUE
         IN  CHOOSE r \in {MarkMines(x, cs \ {c}) : x \in {AgentMarkMine(st, c)}} : TRUE

\* `for safe in s.copy(): self.mark_safe(safe)`: cs is the copy
RECURSIVE MarkSafes(_, _)
MarkSafes(st, cs) ==
    IF cs = {} THEN st
    ELSE LET c == CHOOSE x \in cs : TRUE
         IN  CHOOSE r \in {MarkSafes(x, cs \ {c}) : x \in {AgentMarkSafe(st, c)}} : TRUE

\* The set loops above visit the cells in an order Python does not fix.
\* Whatever the order, a Sentence passes through the values obtained by
\* marking some subset of cs; all of them are recorded in touched.
RECURSIVE SentenceMarkAll(_, _, _)
SentenceMarkAll(v, S, asMine) ==
    IF S = {} THEN v
    ELSE LET c == CHOOSE x \in S : TRUE
         IN  SentenceMarkAll(IF asMine THEN SentenceMarkMine(v, c)
                                       ELSE SentenceMarkSafe(v, c),
                             S \ {c}, asMine)

TouchOrders(st, cs, asMine) ==
    [st EXCEPT !.touched = @ \cup
        {SentenceMarkAll(v, S, asMine) : v \in Values(st), S \in SUBSET cs}]

\* list.remove(x): delete the first element that is x or equals x
\* (Sentence.__eq__); ValueError when there is none.
RemovePos(st, id) ==
    LET hits == {p \in 1 .. Len(st.kn) :
                    st.kn[p] = id \/ SentenceEq(st.heap[st.kn[p]], st.heap[id])}
    IN  IF hits = {} THEN 0 ELSE CHOOSE p \in hits : \A q \in hits : p <= q

\* the pass without its `self.knowledge.remove(sentence)`
ListRemoveNothing(st, id) == st

ListRemove(st, id) ==
    LET p == RemovePos(st, id)
    IN  IF p = 0 THEN [st EXCEPT !.err = "ValueError"]
        ELSE [st EXCEPT !.kn = [q \in 1 .. Len(st.kn) - 1 |->
                                    IF q < p THEN st.kn[q] ELSE st.kn[q + 1]]]

\* ------------------------------------------- MinesweeperAI.add_knowledge
\* (3) without `count -= 1`
NewSentenceKeepCount(sf, mn, cell, count) ==
    LET Neighbors == neighbors(sf, cell)
        known == Neighbors \cap mn
    IN  Sentence(Neighbors \ known, count)

\* (3) the new Sentence: the neighbours not known safe, the known mines
\* among them removed and `count` decremented once for each
NewSentence(sf, mn, cell, count) ==
    LET Neighbors == neighbors(sf, cell)
        known == Neighbors \cap mn
    IN  Sentence(Neighbors \ known, count - Cardinality(known))

\* (4) with `if m is not None:` and `if s is not None:`
ResolveOneIsNotNone(st, id) ==
    LET m == known_mines(st.heap[id])
        s == known_safes(st.heap[id])
        ifM == m # None
        st1 == IF ifM
               THEN LET cs == st.heap[id].cells
                    IN  ListRemove(MarkMines(TouchOrders(st, cs, TRUE), cs), id)
               ELSE st
        ifS == st1.err = "none" /\ s # None
        st2 == IF ifS
               THEN LET cs == st1.heap[id].cells
                    IN  ListRemove(MarkSafes(TouchOrders(st1, cs, FALSE), cs), id)
               ELSE st1
    IN  [st2 EXCEPT !.log[id] =
            [visit |-> st.heap[id],
             m |-> m # None /\ st.heap[id].cells # {},
             s |-> s # None /\ st.heap[id].cells # {},
             fired |-> IF ifM /\ ifS THEN "both"
                       ELSE IF ifM THEN "mine"
                       ELSE IF ifS THEN "safe" ELSE "none"]]

\* (4) one iteration of `for sentence in self.knowledge.copy()`, on the
\* object id.  m and s are evaluated first; each is None or an alias of
\* the object's cells, whose truth value is read when the `if` runs.
ResolveOne(st, id) ==
    LET m == known_mines(st.heap[id])
        s == known_safes(st.heap[id])
        ifM == m # None /\ st.heap[id].cells # {}
        st1 == IF ifM
               THEN LET cs == st.heap[id].cells
                    IN  ListRemove(MarkMines(TouchOrders(st, cs, TRUE), cs), id)
               ELSE st
        ifS == st1.err = "none" /\ s # None /\ st1.heap[id].cells # {}
        st2 == IF ifS
               THEN LET cs == st1.heap[id].cells
                    IN  ListRemove(MarkSafes(TouchOrders(st1, cs, FALSE), cs), id)
               ELSE st1
    IN  [st2 EXCEPT !.log[id] =
            [visit |-> st.heap[id],
             m |-> m # None /\ st.heap[id].cells # {},
             s |-> s # None /\ st.heap[id].cells # {},
             fired |-> IF ifM /\ ifS THEN "both"
                       ELSE IF ifM THEN "mine"
                       ELSE IF ifS THEN "safe" ELSE "none"]]

\* (4) over `reversed(self.knowledge.copy())`
RECURSIVE TrivialPassBackwards(_, _, _)
TrivialPassBackwards(st, snap, i) ==
    IF i > Len(snap) \/ st.err # "none" THEN st
    ELSE CHOOSE r \in {TrivialPassBackwards(x, snap, i + 1) :
                        x \in {ResolveOne(st, snap[Len(snap) - i + 1])}} : TRUE

\* (4) the whole loop over the snapshot snap, from its element i on
RECURSIVE TrivialPass(_, _, _)
TrivialPass(st, snap, i) ==
    IF i > Len(snap) \/ st.err # "none" THEN st
    ELSE CHOOSE r \in {TrivialPass(x, snap, i + 1) :
                        x \in {ResolveOne(st, snap[i])}} : TRUE

\* (5) without the two tests on `cell`
SubsetCondNoCell(s1, s2, cell) ==
    /\ ~SentenceEq(s1, s2)
    /\ s1.cells \subseteq s2.cells

\* (5) the condition of the double loop on sentence1, sentence2
SubsetCond(s1, s2, cell) ==
    /\ ~SentenceEq(s1, s2)
    /\ cell \in s1.cells
    /\ cell \in s2.cells
    /\ s1.cells \subseteq s2.cells

\* (5) the Sentences the double loop over cknowledge appends, in order:
\* pair number k is (sentence1, sentence2) = (ck[i], ck[j])
RECURSIVE SubsetPass(_, _, _)
SubsetPass(ck, cell, k) ==
    LET n == Len(ck)
        i == ((k - 1) \div n) + 1
        j == ((k - 1) % n) + 1
    IN  IF n = 0 \/ k > n * n THEN <<>>
        ELSE (IF SubsetCond(ck[i], ck[j], cell)
              THEN <<Sentence(ck[j].cells \ ck[i].cells, ck[j].count - ck[i].count)>>
              ELSE <<>>) \o SubsetPass(ck, cell, k + 1)

\* The values of self.knowledge, in list order
KnowledgeOf(st) == [p \in 1 .. Len(st.kn) |-> st.heap[st.kn[p]]]

\* add_knowledge(cell, count) on the agent ag = [moves_made, safes, mines,
\* knowledge]; the result carries err and touched as well.
add_knowledge(ag, cell, count) ==
    LET n == Len(ag.knowledge)
        \* (1), (2)
        st0 == AgentMarkSafe([safes |-> ag.safes, mines |-> ag.mines,
                              heap |-> ag.knowledge, kn |-> [p \in 1 .. n |-> p],
                              err |-> "none", touched |-> {},
                              log |-> [id \in 1 .. n + 1 |->
                                        [visit |-> Sentence({}, 0), m |-> FALSE,
                                         s |-> FALSE, fired |-> "unvisited"]]],
                             cell)
        \* (3)
        st1 == Touch([st0 EXCEPT
                    !.heap = Append(@, NewSentence(st0.safes, st0.mines, cell, count)),
                    !.kn = Append(@, n + 1)])
        \* (4)
        st2 == TrivialPass(st1, st1.kn, 1)
    IN  CHOOSE r \in
          {LET \* (5)
               k2 == KnowledgeOf(x2)
               k3 == IF x2.err # "none" THEN k2 ELSE k2 \o SubsetPass(k2, cell, 1)
           IN  [moves_made |-> ag.moves_made \cup {cell},
                safes |-> x2.safes, mines |-> x2.mines, knowledge |-> k3,
                err |-> x2.err,
                newSentence |-> x1.heap[n + 1],
                passLog |-> [id \in 1 .. n + 1 |->
                               [pre |-> IF id <= n THEN ag.knowledge[id] ELSE x1.heap[id],
                                start |-> x1.heap[id],
                                visit |-> x2.log[id].visit,
                                m |-> x2.log[id].m,
                                s |-> x2.log[id].s,
                                fired |-> x2.log[id].fired,
                                kept |-> InKn(x2.kn, id),
                                final |-> x2.heap[id]]],
                touched |-> x2.touched \cup {k3[p] : p \in 1 .. Len(k3)}]
           : x1 \in {st1}, x2 \in {st2}} : TRUE

\* ------------------------------------------------------ move selection
\* make_safe_move with `moves = self.safes`
SafeMovesAll(sf, mm) == sf

\* make_safe_move: `moves = self.safes - self.moves_made`
SafeMoves(sf, mm) == sf \ mm

\* make_random_move with `moves = self.allMoves - self.moves_made`
RandomMovesWithMines(mm, mn) == allMoves \ mm

\* make_random_move: `moves = self.allMoves - self.moves_made - self.mines`
RandomMoves(mm, mn) == (allMoves \ mm) \ mn

\* ---------------------------------------------------------------- actions
Agent == [moves_made |-> moves_made, safes |-> safes, mines |-> mines,
          knowledge |-> knowledge]

InitAgent ==
    /\ moves_made = {}
    /\ safes = {}
    /\ mines = {}
    /\ knowledge = <<>>
    /\ lastOp = "init"
    /\ lastCell = NoCell
    /\ lastCount = 0
    /\ ret = None
    /\ err = "none"
    /\ newSentence = Sentence({}, 0)
    /\ passLog = <<>>
    /\ markLog = [n |-> 0, run |-> 0, acted |-> FALSE]
    /\ touched = {}
    /\ calls = 0

\* a call add_knowledge(cell, count)
AddKnowledge(cell, count) ==
    /\ err = "none"
    /\ \E r \in {add_knowledge(Agent, cell, count)} :
           /\ moves_made' = r.moves_made
           /\ safes' = r.safes
           /\ mines' = r.mines
           /\ knowledge' = r.knowledge
           /\ err' = r.err
           /\ newSentence' = r.newSentence
           /\ passLog' = r.passLog
           /\ touched' = r.touched
    /\ lastOp' = "add_knowledge"
    /\ lastCell' = cell
    /\ lastCount' = count
    /\ ret' = None
    /\ calls' = calls + 1
    /\ markLog' = [markLog EXCEPT !.run = 0, !.acted = FALSE]
    /\ UNCHANGED <<board, game>>

\* the caller reveals a cell that is not a mine and reports its true count
Reveal ==
    \E cell \in allMoves :
        /\ calls < MaxCalls
        /\ ~is_mine(board, cell)
        /\ AddKnowledge(cell, nearby_mines(board, cell))

\* the caller reports any count for any cell of the board.  A count above
\* the number of in-bounds neighbours can never be matched by the cells of
\* the Sentence, whatever it is: one such count stands for all of them.
RevealAny ==
    \E cell \in allMoves :
        \E count \in 0 .. Cardinality(neighbors({}, cell)) + 1 :
            calls < MaxCallsAny /\ AddKnowledge(cell, count)

\* make_safe_move that records the move it returns in moves_made
MakeSafeMoveRecording ==
    /\ err = "none"
    /\ LET moves == SafeMoves(safes, moves_made)
       IN  IF moves # {}
           THEN ret' \in moves /\ moves_made' = moves_made \cup {ret'}
           ELSE ret' = None /\ moves_made' = moves_made
    /\ lastOp' = "make_safe_move"
    /\ UNCHANGED <<game, board, safes, mines, knowledge, lastCell,
                   lastCount, err, newSentence, touched, passLog, markLog, calls>>

\* a call make_safe_move()
MakeSafeMove ==
    /\ err = "none"
    /\ LET moves == SafeMoves(safes, moves_made)
       IN  IF moves # {} THEN ret' \in moves ELSE ret' = None
    /\ lastOp' = "make_safe_move"
    /\ UNCHANGED <<game, board, moves_made, safes, mines, knowledge, lastCell,
                   lastCount, err, newSentence, touched, passLog, markLog, calls>>

\* a call make_random_move()
MakeRandomMove ==
    /\ err = "none"
    /\ LET moves == RandomMoves(moves_made, mines)
       IN  IF moves # {} THEN ret' \in moves ELSE ret' = None
    /\ lastOp' = "make_random_move"
    /\ UNCHANGED <<game, board, moves_made, safes, mines, knowledge, lastCell,
                   lastCount, err, newSentence, touched, passLog, markLog, calls>>

\* the agent's state as the state of a call, for a direct mark call
MarkState ==
    [safes |-> safes, mines |-> mines, heap |-> knowledge,
     kn |-> [p \in 1 .. Len(knowledge) |-> p],
     err |-> "none", touched |-> {}, log |-> <<>>]

\* the bookkeeping of a direct mark call op(cell) that leaves knowledge k
MarkLogAfter(op, cell, k) ==
    IF lastOp = op /\ lastCell = cell /\ markLog.run > 0
    THEN [n |-> markLog.n + 1, run |-> markLog.run + 1, acted |-> markLog.acted]
    ELSE [n |-> markLog.n + 1, run |-> 1, acted |-> k # knowledge]

\* a direct call MinesweeperAI.mark_mine(cell)
CallMarkMine ==
    \E cell \in allMoves :
        /\ err = "none"
        /\ markLog.n < MaxMarks
        /\ \E st \in {AgentMarkMine(MarkState, cell)} :
               /\ mines' = st.mines
               /\ safes' = st.safes
               /\ knowledge' = KnowledgeOf(st)
               /\ touched' = st.touched
               /\ markLog' = MarkLogAfter("mark_mine", cell, KnowledgeOf(st))
        /\ lastOp' = "mark_mine"
        /\ lastCell' = cell
        /\ UNCHANGED <<game, board, moves_made, lastCount, ret, err, newSentence,
                       passLog, calls>>

\* a direct call MinesweeperAI.mark_safe(cell)
CallMarkSafe ==
    \E cell \in allMoves :
        /\ err = "none"
        /\ markLog.n < MaxMarks
        /\ \E st \in {AgentMarkSafe(MarkState, cell)} :
               /\ mines' = st.mines
               /\ safes' = st.safes
               /\ knowledge' = KnowledgeOf(st)
               /\ touched' = st.touched
               /\ markLog' = MarkLogAfter("mark_safe", cell, KnowledgeOf(st))
        /\ lastOp' = "mark_safe"
        /\ lastCell' = cell
        /\ UNCHANGED <<game, board, moves_made, lastCount, ret, err, newSentence,
                       passLog, calls>>

\* add_knowledge with any cell and count, between direct mark calls
RevealMark ==
    \E cell \in allMoves :
        \E count \in 0 .. Cardinality(neighbors({}, cell)) + 1 :
            calls < MaxCallsMark /\ AddKnowledge(cell, count)

\* ----------------------------------------------------------- tic-tac-toe
X == "X"
O == "O"
EMPTY == None

\* math.inf, which the code only compares with the utilities -1, 0, 1
inf == 2

initial_state == [i \in 0 .. 2 |-> [j \in 0 .. 2 |-> EMPTY]]

\* range(len(board)) x range(len(board[0]))
Cells == (0 .. 2) \X (0 .. 2)

\* board[c[0]][c[1]]
At(b, c) == b[c[1]][c[2]]

coord_matrix ==
    << << <<0, 0>>, <<0, 1>>, <<0, 2>> >>,
       << <<1, 0>>, <<1, 1>>, <<1, 2>> >>,
       << <<2, 0>>, <<2, 1>>, <<2, 2>> >>,
       << <<0, 0>>, <<1, 0>>, <<2, 0>> >>,
       << <<0, 1>>, <<1, 1>>, <<2, 1>> >>,
       << <<0, 2>>, <<1, 2>>, <<2, 2>> >>,
       << <<0, 0>>, <<1, 1>>, <<2, 2>> >>,
       << <<0, 2>>, <<1, 1>>, <<2, 0>> >> >>

\* the test of winner's loop on the line l = (coord0, coord1, coord2)
LineWon(b, l) ==
    \E v \in {At(b, l[1])} : v = At(b, l[2]) /\ v = At(b, l[3]) /\ v # EMPTY

\* winner: the mark on the first line of coord_matrix that passes the test
winner(b) ==
    IF \E k \in DOMAIN coord_matrix : LineWon(b, coord_matrix[k])
    THEN LET k == CHOOSE i \in DOMAIN coord_matrix :
                    /\ LineWon(b, coord_matrix[i])
                    /\ \A q \in 1 .. i - 1 : ~LineWon(b, coord_matrix[q])
         IN  At(b, coord_matrix[k][1])
    ELSE None

terminal(b) ==
    LET flag_None == \E c \in Cells : At(b, c) = EMPTY
    IN  \E w \in {winner(b)} : w # None \/ (w = None /\ ~flag_None)

\* player with `if(count_X >= count_O): return O`
playerOnTie(b) ==
    IF b = initial_state THEN X
    ELSE IF terminal(b) THEN None
    ELSE LET count_X == Cardinality({c \in Cells : At(b, c) = X})
             count_O == Cardinality({c \in Cells : At(b, c) = O})
         IN  IF count_X >= count_O THEN O ELSE X

player(b) ==
    IF b = initial_state THEN X
    ELSE IF terminal(b) THEN None
    ELSE LET count_X == Cardinality({c \in Cells : At(b, c) = X})
             count_O == Cardinality({c \in Cells : At(b, c) = O})
         IN  IF count_X > count_O THEN O ELSE X

actions(b) ==
    IF terminal(b) THEN None
    ELSE {c \in Cells : At(b, c) = EMPTY}

\* result: `raise Exception` on an occupied cell, else a copy of the board
\* with player(board) on the cell
result(b, action) ==
    IF At(b, action) # EMPTY THEN "Exception"
    ELSE [b EXCEPT ![action[1]][action[2]] = player(b)]

utility(b) ==
    CHOOSE u \in {IF w = X THEN 1 ELSE IF w = O THEN -1 ELSE 0 : w \in {winner(b)}} : TRUE

min(x, y) == IF x < y THEN x ELSE y

max(x, y) == IF x > y THEN x ELSE y

RECURSIVE max_value(_), min_value(_), MaxLoop(_, _, _), MinLoop(_, _, _)

\* max_value's `for action in actions(board)` over the actions as, from value
MaxLoop(b, as, value) ==
    IF as = {} THEN value
    ELSE LET action == CHOOSE a \in as : TRUE
         IN  CHOOSE r \in {MaxLoop(b, as \ {action}, max(value, v)) :
                             v \in {min_value(result(b, action))}} : TRUE

\* min_value's `for action in actions(board)` over the actions as, from value
MinLoop(b, as, value) ==
    IF as = {} THEN value
    ELSE LET action == CHOOSE a \in as : TRUE
         IN  CHOOSE r \in {MinLoop(b, as \ {action}, min(value, v)) :
                             v \in {max_value(result(b, action))}} : TRUE

max_value(b) ==
    IF terminal(b) THEN utility(b) ELSE MaxLoop(b, actions(b), -inf)

min_value(b) ==
    IF terminal(b) THEN utility(b) ELSE MinLoop(b, actions(b), inf)

\* minimax whose X branch calls max_value on the resulting boards
minimaxSameSide(b) ==
    IF terminal(b) THEN [rets |-> {None}, value |-> {}]
    ELSE CHOOSE r \in
           {LET vals == {<<a, max_value(result(b, a))>> : a \in actions(b)}
                value == CHOOSE v \in {q[2] : q \in vals} :
                            \A q \in vals : IF p = X THEN q[2] <= v ELSE v <= q[2]
            IN  [rets |-> {q[1] : q \in {q \in vals : q[2] = value}},
                 value |-> {value}]
            : p \in {player(b)}} : TRUE

\* minimax(board).  Each loop keeps the first action whose val beats every
\* val before it, and a set is iterated in an order Python does not fix: the
\* call can return any action whose val is the best one, and only those.
\* rets is the set of these; value holds the local `value` when the loop
\* ends, and nothing when minimax returns before the loop.
minimax(b) ==
    IF terminal(b) THEN [rets |-> {None}, value |-> {}]
    ELSE CHOOSE r \in
           {LET vals == {<<a, IF p = X THEN min_value(result(b, a))
                                        ELSE max_value(result(b, a))>> :
                          a \in actions(b)}
                value == CHOOSE v \in {q[2] : q \in vals} :
                            \A q \in vals : IF p = X THEN q[2] <= v ELSE v <= q[2]
            IN  [rets |-> {q[1] : q \in {q \in vals : q[2] = value}},
                 value |-> {value}]
            : p \in {player(b)}} : TRUE

\* a game before its first move, mm being the side that plays minimax
StartGame(mm) ==
    [board |-> initial_state, last |-> "initial_state",
     rets |-> {}, value |-> {}, mm |-> mm, promise |-> {}]

EmptyCount(b) == Cardinality({c \in Cells : At(b, c) = EMPTY})

\* board = result(board, action) for any action of actions(board); the side
\* mm moves this way only while more than MaxEmpty cells are empty
PlayAny ==
    /\ ~terminal(game.board)
    /\ player(game.board) # game.mm \/ EmptyCount(game.board) > MaxEmpty
    /\ \E action \in actions(game.board) :
         game' = [game EXCEPT !.board = result(@, action), !.last = "result",
                              !.rets = {}, !.value = {}]
    /\ UNCHANGED msvars

\* a call minimax(board)
CallMinimax ==
    /\ game.last # "minimax"
    /\ EmptyCount(game.board) <= MaxEmpty
    /\ \E r \in {minimax(game.board)} :
         game' = [game EXCEPT !.last = "minimax", !.rets = r.rets,
                              !.value = r.value,
                              !.promise = IF @ = {} /\ player(game.board) = game.mm
                                          THEN r.value ELSE @]
    /\ UNCHANGED msvars

\* board = result(board, move) for the move that minimax(board) returned
PlayReturned ==
    /\ game.last = "minimax"
    /\ \E action \in game.rets :
         /\ action # None
         /\ game' = [game EXCEPT !.board = result(@, action), !.last = "result",
                              !.rets = {}, !.value = {}]
    /\ UNCHANGED msvars

\* ---------------------------------------------------------- specifications
\* Observations consistent with one fixed board
Init == board \in SUBSET allMoves /\ InitAgent /\ game = StartGame(None)

Next == Reveal \/ MakeSafeMove \/ MakeRandomMove

Spec == Init /\ [][Next]_vars

\* Arbitrary observations: the counts owe nothing to a board
InitAny == board = {} /\ InitAgent /\ game = StartGame(None)

NextAny == RevealAny \/ MakeSafeMove \/ MakeRandomMove

SpecAny == InitAny /\ [][NextAny]_vars

\* add_knowledge, mark_mine and mark_safe called in any order
NextMark == RevealMark \/ CallMarkMine \/ CallMarkSafe

SpecMark == InitAny /\ [][NextMark]_vars

\* Games in which both sides play any action
NextPlay == PlayAny

SpecPlay == InitAny /\ [][NextPlay]_vars

\* Games in which one side, or none, plays what minimax returns
InitTTT ==
    /\ board = {}
    /\ InitAgent
    /\ \E mm \in {X, O, None} : game = StartGame(mm)

NextTTT == PlayAny \/ CallMinimax \/ PlayReturned

SpecTTT == InitTTT /\ [][NextTTT]_vars

\* ----------------------------------------------------------------- claims
Range(f) == {f[p] : p \in DOMAIN f}

\* the in-bounds neighbours of a cell, whatever is known about them
InBoundNeighbors(cell) == neighbors({}, cell)

\* C1: under observations consistent with the board, every cell in mines
\* is a mine of the board, no cell in safes is one, and make_safe_move
\* never returns a mine.
C1_Soundness ==
    /\ \A c \in mines : is_mine(board, c)
    /\ \A c \in safes : ~is_mine(board, c)
    /\ (lastOp = "make_safe_move" /\ ret # None) => ~is_mine(board, ret)

\* a mine and an unrevealed safe cell were both derived, and make_safe_move
\* returned such a safe cell
C1_Witness ==
    /\ mines # {}
    /\ lastOp = "make_safe_move"
    /\ ret # None
    /\ ret \in safes \ moves_made

\* C2: if knowledge holds two distinct constraints s1, s2 that both contain
\* the cell being revealed and s1.cells is a subset of s2.cells, then after
\* add_knowledge returns knowledge contains the constraint
\* s2.cells - s1.cells = s2.count - s1.count.
C2_SubsetResolution ==
    [][lastOp' = "add_knowledge" =>
        \A i, j \in DOMAIN knowledge :
            (/\ ~SentenceEq(knowledge[i], knowledge[j])
             /\ lastCell' \in knowledge[i].cells
             /\ lastCell' \in knowledge[j].cells
             /\ knowledge[i].cells \subseteq knowledge[j].cells)
            => \E p \in DOMAIN knowledge' :
                 SentenceEq(knowledge'[p],
                            Sentence(knowledge[j].cells \ knowledge[i].cells,
                                     knowledge[j].count - knowledge[i].count))]_vars

\* C3: under observations consistent with the board, no cell is both in
\* safes and in mines.
C3_SafesMinesDisjoint == safes \cap mines = {}

\* both sets hold derived cells
C3_Witness == mines # {} /\ safes \ moves_made # {} /\ calls >= 2

\* C4: under observations consistent with the board, every constraint of
\* knowledge has 0 <= count <= |cells| after every mutation: in the values
\* the constraints take during a call and in those they have when it returns.
C4_CountInRange ==
    \A s \in touched \cup Range(knowledge) :
        0 <= s.count /\ s.count <= Cardinality(s.cells)

\* a constraint that lost a cell to a mine and one to a safe cell is still
\* undecided
C4_Witness ==
    /\ mines # {}
    /\ \E s \in Range(knowledge), u \in touched :
        /\ s.cells # {} /\ 0 < s.count /\ s.count < Cardinality(s.cells)
        /\ s.cells \subseteq u.cells /\ s.cells # u.cells /\ s.count < u.count

\* C5: for any sequence of calls, when add_knowledge has returned no cell of
\* safes or mines appears in the cells of a constraint of knowledge.
C5_KnownCellsPurged ==
    \A s \in Range(knowledge) : s.cells \cap (safes \cup mines) = {}

\* a constraint lost a cell to safes or mines during the last call and still
\* has cells, while mines are known
C5_Witness ==
    /\ err = "none"
    /\ mines # {}
    /\ \E s \in Range(knowledge), u \in touched :
         /\ s.cells # {}
         /\ s.cells \subseteq u.cells /\ s.cells # u.cells
         /\ (u.cells \ s.cells) \subseteq safes \cup mines

\* C6: the first add_knowledge(cell, n) on a new agent, cell having at least
\* one in-bounds neighbour: with n the number of in-bounds neighbours it
\* gives mines = neighbours, with n = 0 it gives safes = {cell} + neighbours,
\* and knowledge is empty in both cases.
C6_TrivialObservation ==
    (calls = 1 /\ InBoundNeighbors(lastCell) # {}) =>
        /\ lastCount = Cardinality(InBoundNeighbors(lastCell)) =>
             mines = InBoundNeighbors(lastCell) /\ knowledge = <<>>
        /\ lastCount = 0 =>
             safes = {lastCell} \cup InBoundNeighbors(lastCell) /\ knowledge = <<>>

\* the first call reported every neighbour a mine
C6_Witness ==
    /\ calls = 1
    /\ lastCount = Cardinality(InBoundNeighbors(lastCell))
    /\ mines # {}
    /\ knowledge = <<>>

\* C7 as claimed: a call that builds a constraint with a negative count
\* raises an error.
C7_Original == (calls > 0 /\ newSentence.count < 0) => err # "none"

\* C7 as the code behaves: a call that builds a constraint with a negative
\* count returns normally and leaves a constraint with a negative count,
\* over cells of the one it built, in knowledge.
C7_StoredSilently ==
    (calls > 0 /\ newSentence.count < 0) =>
        /\ err = "none"
        /\ \E s \in Range(knowledge) :
             /\ s.count < 0
             /\ s.count <= newSentence.count
             /\ s.cells \subseteq newSentence.cells

\* add_knowledge(cell, 0) next to a known mine
C7_Witness ==
    /\ lastOp = "add_knowledge"
    /\ lastCount = 0
    /\ newSentence.count < 0
    /\ newSentence.cells # {}
    /\ InBoundNeighbors(lastCell) \cap mines # {}

\* C8: make_safe_move returns a cell of safes - moves_made when there is
\* one, and None, without raising, exactly when safes is within moves_made.
C8_SafeMove ==
    lastOp = "make_safe_move" =>
        /\ err = "none"
        /\ (ret = None) <=> (safes \subseteq moves_made)
        /\ ret # None => (ret \in safes /\ ret \notin moves_made)

\* a safe cell not yet played was returned although moves were made
C8_Witness ==
    lastOp = "make_safe_move" /\ ret # None /\ moves_made # {} /\ safes # moves_made

\* C9: make_random_move returns a board cell outside moves_made and mines
\* when there is one, and None exactly when every cell of the board is in
\* moves_made or mines.
C9_RandomMove ==
    lastOp = "make_random_move" =>
        /\ (ret = None) <=> (\A h \in 0 .. Height - 1, w \in 0 .. Width - 1 :
                                <<h, w>> \in moves_made \cup mines)
        /\ ret # None => (inbound(ret) /\ ret \notin moves_made /\ ret \notin mines)

\* a cell was returned while mines are known
C9_Witness ==
    lastOp = "make_random_move" /\ ret # None /\ mines # {} /\ moves_made # {}

\* C10: make_safe_move and make_random_move change none of moves_made,
\* safes, mines and knowledge.
C10_MovesReadOnly ==
    [][lastOp' \in {"make_safe_move", "make_random_move"} =>
        UNCHANGED <<moves_made, safes, mines, knowledge>>]_vars

\* a move was returned by an agent that holds constraints
C10_Witness ==
    /\ lastOp = "make_safe_move"
    /\ ret # None
    /\ \E s \in Range(knowledge) : s.cells # {}

\* a constraint over at least one cell that known_mines or known_safes
\* decides: count = 0 or count = |cells|
Trivial(s) == s.cells # {} /\ (s.count = 0 \/ s.count = Cardinality(s.cells))

\* the Sentences the call found in knowledge: all of passLog but the last
OldEntries == {i \in DOMAIN passLog : i < Len(passLog)}

\* C11: Sentence.mark_mine(c) and Sentence.mark_safe(c) applied twice give
\* what they give applied once, and change nothing when c is not in cells;
\* the same holds of MinesweeperAI.mark_mine / mark_safe on mines, safes and
\* every constraint of knowledge.
C11_MarkIdempotent ==
    [][lastOp' \in {"mark_mine", "mark_safe"} =>
        /\ Len(knowledge') = Len(knowledge)
        /\ \A p \in DOMAIN knowledge :
             /\ lastCell' \notin knowledge[p].cells => knowledge'[p] = knowledge[p]
             /\ knowledge'[p] =
                  (IF lastOp' = "mark_mine"
                   THEN SentenceMarkMine(knowledge[p], lastCell')
                   ELSE SentenceMarkSafe(knowledge[p], lastCell'))
             /\ knowledge'[p] =
                  (IF lastOp' = "mark_mine"
                   THEN SentenceMarkMine(knowledge'[p], lastCell')
                   ELSE SentenceMarkSafe(knowledge'[p], lastCell'))
        /\ (markLog'.run > 1) => UNCHANGED <<mines, safes, knowledge>>]_vars

\* mark_mine was called twice in a row with a cell that the first call
\* removed from a constraint
C11_Witness ==
    /\ lastOp = "mark_mine"
    /\ markLog.run = 2
    /\ markLog.acted
    /\ \E s \in Range(knowledge) : s.cells # {}

\* The game-theoretic value of a board, from the rules of the game alone:
\* three in a line wins, X moves when an odd number of cells is free, and a
\* side to move gets the best value among the boards it can move to.
Lines ==
    {{<<i, j>> : j \in 0 .. 2} : i \in 0 .. 2}
        \cup {{<<i, j>> : i \in 0 .. 2} : j \in 0 .. 2}
        \cup {{<<i, i>> : i \in 0 .. 2}, {<<i, 2 - i>> : i \in 0 .. 2}}

Has(b, v) == \E L \in Lines : \A c \in L : At(b, c) = v

Free(b) == {c \in Cells : At(b, c) = EMPTY}

Over(b) == Has(b, X) \/ Has(b, O) \/ Free(b) = {}

Score(b) == IF Has(b, X) THEN 1 ELSE IF Has(b, O) THEN -1 ELSE 0

ToMove(b) == IF Cardinality(Free(b)) % 2 = 1 THEN X ELSE O

Put(b, c, v) == [b EXCEPT ![c[1]][c[2]] = v]

Best(m, S) ==
    IF m = X THEN (IF 1 \in S THEN 1 ELSE IF 0 \in S THEN 0 ELSE -1)
    ELSE (IF -1 \in S THEN -1 ELSE IF 0 \in S THEN 0 ELSE 1)

RECURSIVE Value(_)
Value(b) ==
    IF Over(b) THEN Score(b)
    ELSE CHOOSE r \in {Best(ToMove(b), kids) :
                        kids \in {{Value(Put(b, c, ToMove(b))) : c \in Free(b)}}} : TRUE

C18_TurnAlternation ==
    [][game'.last = "result" =>
        /\ \A bd \in {game.board, game'.board} :
             \E d \in {Cardinality({c \in Cells : At(bd, c) = X})
                        - Cardinality({c \in Cells : At(bd, c) = O})} :
                /\ d \in {0, 1}
                /\ player(bd) = (IF terminal(bd) THEN None
                                 ELSE IF d = 0 THEN X ELSE O)
        /\ \E c \in Cells :
             /\ At(game.board, c) = EMPTY
             /\ player(game.board) \in {X, O}
             /\ At(game'.board, c) = player(game.board)
             /\ \A e \in Cells \ {c} : At(game'.board, e) = At(game.board, e)]_vars

\* O has just won: the marks are as many, and the board is terminal
C18_Witness ==
    /\ game.last = "result"
    /\ winner(game.board) = O
    /\ terminal(game.board)
    /\ player(game.board) = None

\* C13: a constraint with empty cells that is in knowledge when an
\* add_knowledge call returns is no longer in knowledge when the next
\* add_knowledge call returns.
C13_EmptyDiscarded ==
    \A i \in OldEntries : passLog[i].pre.cells = {} => ~passLog[i].kept

\* C14 as claimed: a constraint that is not trivial when the pass starts and
\* becomes trivial by the marking of that pass is neither resolved nor
\* removed in that call, wherever it stands in knowledge.
C14_Original ==
    \A i \in DOMAIN passLog :
        LET e == passLog[i]
        IN  (~Trivial(e.start) /\ (Trivial(e.visit) \/ Trivial(e.final)))
                => e.fired = "none" /\ e.kept

\* the cells resolved as mines (asMine) or as safe by the entries before i
ResolvedBefore(i, asMine) ==
    UNION {passLog[j].visit.cells :
            j \in {k \in 1 .. i - 1 :
                    passLog[k].fired = (IF asMine THEN "mine" ELSE "safe")}}

\* C14 as the code behaves: the loop visits the snapshot in list order and
\* decides on the value a constraint has when it is reached, which is its
\* value at the start of the pass marked with the cells the constraints
\* before it resolved.  A constraint not trivial at the start of the pass is
\* resolved in the same call exactly when it is trivial when reached; one
\* that becomes trivial after it was reached stays in knowledge, unresolved.
C14_ResolvedWhenReached ==
    \A i \in DOMAIN passLog :
        LET e == passLog[i]
        IN  /\ e.visit = SentenceMarkAll(
                            SentenceMarkAll(e.start, ResolvedBefore(i, TRUE), TRUE),
                            ResolvedBefore(i, FALSE), FALSE)
            /\ ~Trivial(e.start) =>
                /\ Trivial(e.visit) =>
                    /\ e.fired \in {"mine", "safe"}
                    /\ e.visit.cells \subseteq
                         (IF e.visit.count = 0 THEN safes ELSE mines)
                /\ ~Trivial(e.visit) => e.fired = "none"
                /\ (~Trivial(e.visit) /\ Trivial(e.final)) =>
                    /\ e.kept
                    /\ e.final \in Range(knowledge)
                    /\ e.final.cells \cap (safes \cup mines) = {}

\* a constraint was made trivial by a constraint after it in the list, when
\* the loop had already passed it, and is left in knowledge
C14_Witness ==
    \E i \in DOMAIN passLog :
        /\ ~Trivial(passLog[i].start)
        /\ ~Trivial(passLog[i].visit)
        /\ Trivial(passLog[i].final)
        /\ \E j \in DOMAIN passLog : j > i /\ passLog[j].fired \in {"mine", "safe"}

\* C15: under observations consistent with the board, a constraint with
\* cells that is trivial in knowledge when an add_knowledge call returns has
\* all its cells in safes (count = 0) or in mines (count = |cells|) when the
\* next add_knowledge call returns.
C15_LeftoverResolvedNextCall ==
    \A i \in OldEntries :
        LET s == passLog[i].pre
        IN  Trivial(s) => s.cells \subseteq (IF s.count = 0 THEN safes ELSE mines)

\* the call found a trivial constraint left by the call before
C15_Witness ==
    \E i \in OldEntries : Trivial(passLog[i].pre) /\ passLog[i].fired # "none"

\* the in-bounds cells at distance one of cell, by coordinates
Adjacent(cell) ==
    {c \in allMoves :
        /\ c # cell
        /\ c[1] - cell[1] \in {-1, 0, 1}
        /\ c[2] - cell[2] \in {-1, 0, 1}}

\* C16: the constraint add_knowledge(cell, count) builds has cells = the
\* in-bounds neighbours of cell - safes - mines, safes taken after cell was
\* marked safe, and count = count - |(neighbours - safes) /\ mines|; it
\* holds neither cell nor a coordinate outside the board.
C16_NewSentence ==
    [][lastOp' = "add_knowledge" =>
        LET open == Adjacent(lastCell') \ (safes \cup {lastCell'})
        IN  /\ newSentence'.cells = open \ mines
            /\ newSentence'.count = lastCount' - Cardinality(open \cap mines)
            /\ lastCell' \notin newSentence'.cells
            /\ \A c \in newSentence'.cells : inbound(c)]_vars

\* the cell revealed had a known mine, a known safe cell and an unknown
\* cell among its neighbours
C16_Witness ==
    /\ lastOp = "add_knowledge"
    /\ newSentence.cells # {}
    /\ newSentence.count < lastCount
    /\ Cardinality(newSentence.cells) + (lastCount - newSentence.count)
         < Cardinality(Adjacent(lastCell))

\* C17: under observations consistent with the board, the count of every
\* constraint in knowledge is the number of mines among its cells.
C17_ConstraintsTrue ==
    \A s \in Range(knowledge) : s.count = Cardinality({c \in s.cells : is_mine(board, c)})

\* a constraint that lost a mine and still counts one is in knowledge
C17_Witness ==
    /\ mines # {}
    /\ \E i \in DOMAIN passLog :
         /\ passLog[i].kept
         /\ passLog[i].final.count > 0
         /\ passLog[i].final.count < passLog[i].pre.count
         /\ passLog[i].final \in Range(knowledge)

\* C19: for any sequence of calls, no add_knowledge call raises: every
\* knowledge.remove finds an element, known_mines and known_safes are never
\* both non-empty for one constraint, and no constraint is removed twice.
C19_RemoveNeverFails ==
    /\ err = "none"
    /\ \A i \in DOMAIN passLog :
         /\ passLog[i].fired # "unvisited"
         /\ ~(passLog[i].m /\ passLog[i].s)
         /\ passLog[i].fired # "both"

\* a constraint was resolved while an equal, empty one stood before it in
\* the list: remove took that one and the resolved object stayed
C19_Witness ==
    /\ err = "none"
    /\ \E i \in DOMAIN passLog : passLog[i].fired \in {"mine", "safe"} /\ passLog[i].kept

C21_RevealedAreSafe ==
    [][/\ moves_made' \subseteq safes'
       /\ moves_made \subseteq moves_made'
       /\ safes \subseteq safes'
       /\ mines \subseteq mines']_vars

\* an add_knowledge call, not the first, added its cell to moves_made and
\* safes, and in that call safes gained other cells and mines gained cells
C21_Witness ==
    /\ lastOp = "add_knowledge"
    /\ calls >= 2
    /\ lastCell \in moves_made
    /\ \E i \in DOMAIN passLog : passLog[i].fired = "safe"
    /\ \E i \in DOMAIN passLog : passLog[i].fired = "mine"
    /\ safes \ moves_made # {}
    /\ mines # {}

=============================================================================
